---- MODULE Spec2Model ----
(***************************************************************************)
(* Model of the PR reviewer (src/main.py): one POST /review request, from  *)
(* its form fields to its HTTP response, with every outbound call it makes *)
(* (GitHub metadata, file list, raw contents, the completion call, the     *)
(* review post and the label post) and the outcome of each.                *)
(*                                                                         *)
(* Text is a sequence of one-character strings.  A JSON value is a record  *)
(* [t, s, n, keys, items]: t is the Python type json.loads produces.       *)
(***************************************************************************)
EXTENDS Integers, Sequences, FiniteSets, TLC

(* ------------------------------ bounds --------------------------------- *)
\* longest raw model text enumerated exhaustively over TextAlphabet
MaxTextLen == 3
\* most changed files GitHub lists for the pull request of a request
MaxListed == 6
\* largest max_files / max_chars_per_file argument tried on fetch_pr_and_files
MaxCap == 3
\* longest raw file content tried on fetch_pr_and_files
MaxRawLen == 4

(* ------------------------------ text ----------------------------------- *)
None == [t |-> "None", s |-> <<>>, n |-> 0, keys |-> <<>>, items |-> <<>>]
JStr(chars) == [t |-> "str", s |-> chars, n |-> 0, keys |-> <<>>, items |-> <<>>]
JInt(k) == [t |-> "int", s |-> <<>>, n |-> k, keys |-> <<>>, items |-> <<>>]
JBool(b) == [t |-> "bool", s |-> <<>>, n |-> IF b THEN 1 ELSE 0, keys |-> <<>>, items |-> <<>>]
JList(vs) == [t |-> "list", s |-> <<>>, n |-> 0, keys |-> <<>>, items |-> vs]
JDict(ks, vs) == [t |-> "dict", s |-> <<>>, n |-> 0, keys |-> ks, items |-> vs]

\* characters str.strip() removes and the JSON decoder skips between tokens
Whitespace == {" ", "\n"}
Digits == {"0", "1", "2", "3", "4", "5", "6", "7", "8", "9"}

DigitValue(c) ==
    CASE c = "0" -> 0 [] c = "1" -> 1 [] c = "2" -> 2 [] c = "3" -> 3 [] c = "4" -> 4
      [] c = "5" -> 5 [] c = "6" -> 6 [] c = "7" -> 7 [] c = "8" -> 8 [] c = "9" -> 9

\* text[a:b] of Python for 0 <= a and any b >= 0 (an empty text when b <= a)
PySlice(text, a, b) ==
    LET hi == IF b > Len(text) THEN Len(text) ELSE b
    IN  IF hi <= a THEN <<>> ELSE SubSeq(text, a + 1, hi)

\* text.strip()
Strip(text) ==
    LET keep == {i \in 1..Len(text) : text[i] \notin Whitespace}
    IN  IF keep = {} THEN <<>>
        ELSE LET lo == CHOOSE i \in keep : \A j \in keep : i <= j
                 hi == CHOOSE i \in keep : \A j \in keep : j <= i
             IN  SubSeq(text, lo, hi)

\* does the literal lit stand in text at 1-based position i
MatchAt(text, i, lit) ==
    /\ i + Len(lit) - 1 <= Len(text)
    /\ \A k \in 1..Len(lit) : text[i + k - 1] = lit[k]

(* --------------------------- json.loads -------------------------------- *)
Fail == [ok |-> FALSE, v |-> None, next |-> 0]
Ok(val, nxt) == [ok |-> TRUE, v |-> val, next |-> nxt]

\* first position at or after i that holds no whitespace (Len+1 at the end)
SkipWs(text, i) ==
    CHOOSE j \in i..(Len(text) + 1) :
        /\ \A k \in i..(j - 1) : text[k] \in Whitespace
        /\ j = Len(text) + 1 \/ text[j] \notin Whitespace

\* a string literal opening at i: up to the next quote, no control character in it
ScanString(text, i) ==
    LET closing == {j \in (i + 1)..Len(text) : text[j] = "\""}
    IN  IF i > Len(text) \/ text[i] # "\"" \/ closing = {} THEN Fail
        ELSE LET j == CHOOSE c \in closing : \A d \in closing : c <= d
             IN  IF \E k \in (i + 1)..(j - 1) : text[k] = "\n" THEN Fail
                 ELSE Ok(JStr(SubSeq(text, i + 1, j - 1)), j + 1)

RECURSIVE DigitsValue(_)
DigitsValue(ds) ==
    IF ds = <<>> THEN 0
    ELSE 10 * DigitsValue(SubSeq(ds, 1, Len(ds) - 1)) + DigitValue(ds[Len(ds)])

\* an integer literal at i: 0, or a run of digits not starting with 0
ScanNumber(text, i) ==
    IF i > Len(text) \/ text[i] \notin Digits THEN Fail
    ELSE IF text[i] = "0" THEN Ok(JInt(0), i + 1)
    ELSE LET j == CHOOSE e \in i..Len(text) :
                      /\ \A k \in i..e : text[k] \in Digits
                      /\ e = Len(text) \/ text[e + 1] \notin Digits
         IN  Ok(JInt(DigitsValue(SubSeq(text, i, j))), j + 1)

\* dict[k] = v: a repeated key keeps its place and takes the last value
DictSet(d, k, v) ==
    IF \E i \in 1..Len(d.keys) : d.keys[i] = k
    THEN LET i == CHOOSE p \in 1..Len(d.keys) : d.keys[p] = k
         IN  JDict(d.keys, [d.items EXCEPT ![i] = v])
    ELSE JDict(Append(d.keys, k), Append(d.items, v))

RECURSIVE ScanValue(_, _), ScanItems(_, _, _), ScanMembers(_, _, _)

\* one JSON value starting exactly at position i
ScanValue(text, i) ==
    IF i > Len(text) THEN Fail
    ELSE IF text[i] = "\"" THEN ScanString(text, i)
    ELSE IF text[i] = "{" THEN
        LET j == SkipWs(text, i + 1)
        IN  IF j <= Len(text) /\ text[j] = "}" THEN Ok(JDict(<<>>, <<>>), j + 1)
            ELSE ScanMembers(text, j, JDict(<<>>, <<>>))
    ELSE IF text[i] = "[" THEN
        LET j == SkipWs(text, i + 1)
        IN  IF j <= Len(text) /\ text[j] = "]" THEN Ok(JList(<<>>), j + 1)
            ELSE ScanItems(text, j, <<>>)
    ELSE IF MatchAt(text, i, <<"n", "u", "l", "l">>) THEN Ok(None, i + 4)
    ELSE IF MatchAt(text, i, <<"t", "r", "u", "e">>) THEN Ok(JBool(TRUE), i + 4)
    ELSE IF MatchAt(text, i, <<"f", "a", "l", "s", "e">>) THEN Ok(JBool(FALSE), i + 5)
    ELSE ScanNumber(text, i)

\* the items of an array from position i on, acc the items read so far
ScanItems(text, i, acc) ==
    LET item == ScanValue(text, i)
    IN  IF ~item.ok THEN Fail
        ELSE LET j == SkipWs(text, item.next)
                 got == Append(acc, item.v)
             IN  IF j > Len(text) THEN Fail
                 ELSE IF text[j] = "]" THEN Ok(JList(got), j + 1)
                 ELSE IF text[j] = "," THEN ScanItems(text, SkipWs(text, j + 1), got)
                 ELSE Fail

\* the members of an object from position i on, acc the dict built so far
ScanMembers(text, i, acc) ==
    LET key == ScanString(text, i)
    IN  IF ~key.ok THEN Fail
        ELSE LET c == SkipWs(text, key.next)
             IN  IF c > Len(text) \/ text[c] # ":" THEN Fail
                 ELSE LET val == ScanValue(text, SkipWs(text, c + 1))
                      IN  IF ~val.ok THEN Fail
                          ELSE LET j == SkipWs(text, val.next)
                                   got == DictSet(acc, key.v.s, val.v)
                               IN  IF j > Len(text) THEN Fail
                                   ELSE IF text[j] = "}" THEN Ok(got, j + 1)
                                   ELSE IF text[j] = ","
                                        THEN ScanMembers(text, SkipWs(text, j + 1), got)
                                   ELSE Fail

\* json.loads(text): one value between optional whitespace, nothing after it;
\* ok = FALSE stands for the JSONDecodeError it raises
json_loads(text) ==
    LET r == ScanValue(text, SkipWs(text, 1))
    IN  IF ~r.ok THEN Fail
        ELSE IF SkipWs(text, r.next) # Len(text) + 1 THEN Fail
        ELSE Ok(r.v, Len(text) + 1)

(* ----------------------- parse_model_json_safe ------------------------- *)
\* text.index('{') as a 0-based index; -1 stands for the ValueError it raises
index_brace(text) ==
    LET at == {i \in 1..Len(text) : text[i] = "{"}
    IN  IF at = {} THEN -1 ELSE (CHOOSE i \in at : \A j \in at : i <= j) - 1

\* text.rfind('}'): the 0-based index of the last '}', -1 when there is none
rfind_brace_first(text) ==
    LET at == {i \in 1..Len(text) : text[i] = "}"}
    IN  IF at = {} THEN -1 ELSE (CHOOSE i \in at : \A j \in at : i <= j) - 1

rfind_brace(text) ==
    LET at == {i \in 1..Len(text) : text[i] = "}"}
    IN  IF at = {} THEN -1 ELSE (CHOOSE i \in at : \A j \in at : j <= i) - 1

Chars_summary == <<"s", "u", "m", "m", "a", "r", "y">>
Chars_comments == <<"c", "o", "m", "m", "e", "n", "t", "s">>
Chars_labels == <<"l", "a", "b", "e", "l", "s">>

parse_model_json_safe(text) ==
    LET start == index_brace(text)
        end == rfind_brace(text)
        sliced == IF start < 0 THEN Fail ELSE json_loads(PySlice(text, start, end + 1))
        whole == json_loads(text)
    IN  IF sliced.ok THEN sliced.v
        ELSE IF whole.ok THEN whole.v
        ELSE JDict(<<Chars_summary, Chars_comments, Chars_labels>>,
                   <<JStr(Strip(text)), JList(<<>>), JList(<<>>)>>)

(* --------------------------- parse_pr_url ------------------------------ *)
Lit_http ==
    <<"h", "t", "t", "p">>

Lit_host ==
    <<":", "/", "/", "g", "i", "t", "h", "u", "b", ".", "c", "o", "m", "/">>

Lit_pull ==
    <<"/", "p", "u", "l", "l", "/">>

\* the run of characters from position i up to the next '/' (or the end)
RunToSlash(url, i) ==
    LET stops == {j \in i..Len(url) : url[j] = "/"}
        e == IF stops = {} THEN Len(url) + 1
             ELSE CHOOSE j \in stops : \A k \in stops : j <= k
    IN  IF e <= i THEN <<>> ELSE SubSeq(url, i, e - 1)

\* the longest run of digits from position i
DigitRun(url, i) ==
    IF i > Len(url) \/ url[i] \notin Digits THEN <<>>
    ELSE LET e == CHOOSE j \in i..Len(url) :
                      /\ \A k \in i..j : url[k] \in Digits
                      /\ j = Len(url) \/ url[j + 1] \notin Digits
         IN  SubSeq(url, i, e)

\* PR_URL_REGEX matched with its first character at position i:
\* https?://github\.com/([^/]+)/([^/]+)/pull/(\d+)
MatchPrAt(url, i) ==
    LET h == IF MatchAt(url, i, Lit_http \o <<"s">> \o Lit_host)
             THEN i + Len(Lit_http) + 1 + Len(Lit_host)
             ELSE IF MatchAt(url, i, Lit_http \o Lit_host)
             THEN i + Len(Lit_http) + Len(Lit_host)
             ELSE 0
        owner == RunToSlash(url, h)
        r == h + Len(owner) + 1
        repo == RunToSlash(url, r)
        p == r + Len(repo)
        number == DigitRun(url, p + Len(Lit_pull))
    IN  IF h = 0 \/ owner = <<>> \/ r > Len(url) \/ repo = <<>>
           \/ ~MatchAt(url, p, Lit_pull) \/ number = <<>>
        THEN [ok |-> FALSE, owner |-> <<>>, repo |-> <<>>, number |-> 0]
        ELSE [ok |-> TRUE, owner |-> owner, repo |-> repo, number |-> DigitsValue(number)]

\* a search for the host alone, with no /owner/repo/pull/number after it
parse_pr_url_host_only(url) ==
    LET u == Strip(url)
        hits == {i \in 1..Len(u) : \/ MatchAt(u, i, Lit_http \o <<"s">> \o Lit_host)
                                   \/ MatchAt(u, i, Lit_http \o Lit_host)}
    IN  [ok |-> hits # {}, owner |-> <<>>, repo |-> <<>>, number |-> 0]

\* PR_URL_REGEX.search(url.strip()): the leftmost match; ok = FALSE is None
parse_pr_url(url) ==
    LET u == Strip(url)
        hits == {i \in 1..Len(u) : MatchPrAt(u, i).ok}
    IN  IF hits = {} THEN [ok |-> FALSE, owner |-> <<>>, repo |-> <<>>, number |-> 0]
        ELSE MatchPrAt(u, CHOOSE i \in hits : \A j \in hits : i <= j)

(* ------------------------- fetch_pr_and_files -------------------------- *)
\* the defaults of fetch_pr_and_files, which review() calls it with
DefaultMaxFiles == 5
DefaultMaxCharsPerFile == 2000

\* '<<failed to fetch file contents>>'
Placeholder ==
    <<"<", "<", "f", "a", "i", "l", "e", "d", " ", "t", "o", " ", "f", "e", "t", "c",
      "h", " ", "f", "i", "l", "e", " ", "c", "o", "n", "t", "e", "n", "t", "s", ">",
      ">">>

\* '\n\n...TRUNCATED...'
TruncationMarker ==
    <<"\n", "\n", ".", ".", ".", "T", "R", "U", "N", "C", "A", "T", "E", "D", ".", ".",
      ".">>

\* files[:max_files]
files_slice(files, max_files) == PySlice(files, 0, max_files)

\* the truncation that cuts at the cap and leaves no marker
truncate_unmarked(file_contents, max_chars_per_file) ==
    IF Len(file_contents) > max_chars_per_file
    THEN PySlice(file_contents, 0, max_chars_per_file)
    ELSE file_contents

\* lines 113-114: the contents, cut to the cap and marked when longer
truncate(file_contents, max_chars_per_file) ==
    IF Len(file_contents) > max_chars_per_file
    THEN PySlice(file_contents, 0, max_chars_per_file) \o TruncationMarker
    ELSE file_contents

\* the raw fetch that leaves the contents empty when the get raised
raw_contents_empty(reply) == reply.text

\* lines 109-112: the text of the raw reply, the placeholder when the get raised
raw_contents(reply) == IF reply.raised THEN Placeholder ELSE reply.text

\* one entry of selected, for listed file f and the reply to its raw_url
selected_entry(f, reply, max_chars_per_file) ==
    [filename |-> f.filename, status |-> f.status, changes |-> f.changes,
     contents |-> truncate(raw_contents(reply), max_chars_per_file)]

(* ------------------------ post_review_and_labels ----------------------- *)
Chars_path ==
    <<"p", "a", "t", "h">>

Chars_comment ==
    <<"c", "o", "m", "m", "e", "n", "t">>

Chars_message ==
    <<"m", "e", "s", "s", "a", "g", "e">>

Chars_unknown ==
    <<"<", "u", "n", "k", "n", "o", "w", "n", ">">>

Label_security_issue ==
    <<"s", "e", "c", "u", "r", "i", "t", "y", "-", "i", "s", "s", "u", "e">>

Label_code_logic_issue ==
    <<"c", "o", "d", "e", "-", "l", "o", "g", "i", "c", "-", "i", "s", "s", "u", "e">>

Label_build_issue ==
    <<"b", "u", "i", "l", "d", "-", "i", "s", "s", "u", "e">>

Label_docs_issue ==
    <<"d", "o", "c", "s", "-", "i", "s", "s", "u", "e">>

Label_style_issue ==
    <<"s", "t", "y", "l", "e", "-", "i", "s", "s", "u", "e">>

Label_perf_issue ==
    <<"p", "e", "r", "f", "-", "i", "s", "s", "u", "e">>

Label_other ==
    <<"o", "t", "h", "e", "r">>

allowed ==
    {Label_security_issue, Label_code_logic_issue, Label_build_issue, Label_docs_issue,
     Label_style_issue, Label_perf_issue, Label_other}

\* bool(v) of Python
Truthy(v) ==
    CASE v.t = "None" -> FALSE
      [] v.t \in {"bool", "int"} -> v.n # 0
      [] v.t = "str" -> v.s # <<>>
      [] v.t = "list" -> v.items # <<>>
      [] v.t = "dict" -> v.keys # <<>>

\* a or b
PyOr(a, b) == IF Truthy(a) THEN a ELSE b

\* d.get(k, default) on a dict d
DictGet(d, k, default) ==
    IF \E i \in 1..Len(d.keys) : d.keys[i] = k
    THEN d.items[CHOOSE i \in 1..Len(d.keys) : d.keys[i] = k]
    ELSE default

\* can a for loop run over v (otherwise it raises TypeError)
Iterable(v) == v.t \in {"list", "str", "dict"}

\* what a for loop over v yields: items, characters, keys
Iterate(v) ==
    CASE v.t = "list" -> v.items
      [] v.t = "str" -> [i \in 1..Len(v.s) |-> JStr(<<v.s[i]>>)]
      [] v.t = "dict" -> [i \in 1..Len(v.keys) |-> JStr(v.keys[i])]

\* can v be looked up in a set (otherwise `in` raises TypeError)
Hashable(v) == v.t \notin {"list", "dict"}

\* lines 186-193: the review body, or the exception raised while building it.
\* The body is kept as the values the f-strings interpolate, not as text.
review_body(review_json) ==
    IF review_json.t # "dict"
    THEN [raised |-> "AttributeError", summary |-> None, comments |-> <<>>]
    ELSE LET summary == PyOr(DictGet(review_json, Chars_summary, None), JStr(<<>>))
             comments == PyOr(DictGet(review_json, Chars_comments, None), JList(<<>>))
         IN  IF ~Iterable(comments)
             THEN [raised |-> "TypeError", summary |-> None, comments |-> <<>>]
             ELSE LET cs == Iterate(comments)
                  IN  IF \E i \in 1..Len(cs) : cs[i].t # "dict"
                      THEN [raised |-> "AttributeError", summary |-> None, comments |-> <<>>]
                      ELSE [raised |-> "",
                            summary |-> summary,
                            comments |->
                                [i \in 1..Len(cs) |->
                                    [path |-> DictGet(cs[i], Chars_path, JStr(Chars_unknown)),
                                     comment |->
                                         PyOr(PyOr(DictGet(cs[i], Chars_comment, None),
                                                   DictGet(cs[i], Chars_message, None)),
                                              JStr(<<>>))]]]

\* the filter that lets every string label through
keep_label_any(l) == l.t = "str"

\* line 206: l in allowed, for a hashable l
keep_label(l) == l.t = "str" /\ l.s \in allowed

\* lines 203-206: to_add, or the exception raised while computing it
sanitize_labels(review_json) ==
    LET labels == PyOr(DictGet(review_json, Chars_labels, None), JList(<<>>))
    IN  IF ~Iterable(labels) THEN [raised |-> "TypeError", to_add |-> <<>>]
        ELSE LET ls == Iterate(labels)
                 kept == SelectSeq(ls, keep_label)
             IN  IF \E i \in 1..Len(ls) : ~Hashable(ls[i])
                 THEN [raised |-> "TypeError", to_add |-> <<>>]
                 ELSE [raised |-> "", to_add |-> [i \in 1..Len(kept) |-> kept[i].s]]

(* ------------------------------ inputs --------------------------------- *)
\* 'https://github.com/o/r/pull/1'
Url_plain ==
    <<"h", "t", "t", "p", "s", ":", "/", "/", "g", "i", "t", "h", "u", "b", ".", "c",
      "o", "m", "/", "o", "/", "r", "/", "p", "u", "l", "l", "/", "1">>

\* ' see http://github.com/acme/w/pull/42/files '
Url_embedded ==
    <<" ", "s", "e", "e", " ", "h", "t", "t", "p", ":", "/", "/", "g", "i", "t", "h",
      "u", "b", ".", "c", "o", "m", "/", "a", "c", "m", "e", "/", "w", "/", "p", "u",
      "l", "l", "/", "4", "2", "/", "f", "i", "l", "e", "s", " ">>

\* 'https://github.com/o/r/issues/1'
Url_issue ==
    <<"h", "t", "t", "p", "s", ":", "/", "/", "g", "i", "t", "h", "u", "b", ".", "c",
      "o", "m", "/", "o", "/", "r", "/", "i", "s", "s", "u", "e", "s", "/", "1">>

\* 'https://github.com/o/pull/1'
Url_norepo ==
    <<"h", "t", "t", "p", "s", ":", "/", "/", "g", "i", "t", "h", "u", "b", ".", "c",
      "o", "m", "/", "o", "/", "p", "u", "l", "l", "/", "1">>

\* ' '
Url_blank ==
    <<" ">>

\* 'https://github.com/o/r/pull/x'
Url_nonumber ==
    <<"h", "t", "t", "p", "s", ":", "/", "/", "g", "i", "t", "h", "u", "b", ".", "c",
      "o", "m", "/", "o", "/", "r", "/", "p", "u", "l", "l", "/", "x">>

\* request.form.get('pr_url'): absent, empty, or some text
PrUrls ==
    {None, JStr(<<>>), JStr(Url_blank), JStr(Url_plain), JStr(Url_embedded),
     JStr(Url_issue), JStr(Url_norepo), JStr(Url_nonumber)}

\* request.form.get('token'), GITHUB_TOKEN and OPENAI_KEY: absent, empty or set
FormTokens == {None, JStr(<<>>), JStr(<<"f">>)}
EnvTokens == {None, JStr(<<"g">>)}
OpenAiKeys == {JStr(<<>>), JStr(<<"k">>)}

\* 'Here: {"summary":"s","comments":[{"path":"p","comment":"c"},{"message":"m"}],"labels":["other","zz","perf-issue"]} ok'
Text_wrapped ==
    <<"H", "e", "r", "e", ":", " ", "{", "\"", "s", "u", "m", "m", "a", "r", "y", "\"",
      ":", "\"", "s", "\"", ",", "\"", "c", "o", "m", "m", "e", "n", "t", "s", "\"", ":",
      "[", "{", "\"", "p", "a", "t", "h", "\"", ":", "\"", "p", "\"", ",", "\"", "c", "o",
      "m", "m", "e", "n", "t", "\"", ":", "\"", "c", "\"", "}", ",", "{", "\"", "m", "e",
      "s", "s", "a", "g", "e", "\"", ":", "\"", "m", "\"", "}", "]", ",", "\"", "l", "a",
      "b", "e", "l", "s", "\"", ":", "[", "\"", "o", "t", "h", "e", "r", "\"", ",", "\"",
      "z", "z", "\"", ",", "\"", "p", "e", "r", "f", "-", "i", "s", "s", "u", "e", "\"",
      "]", "}", " ", "o", "k">>

\* '{"summary":"s","comments":[],"labels":["zz","Other"]}'
Text_unknown_labels ==
    <<"{", "\"", "s", "u", "m", "m", "a", "r", "y", "\"", ":", "\"", "s", "\"", ",", "\"",
      "c", "o", "m", "m", "e", "n", "t", "s", "\"", ":", "[", "]", ",", "\"", "l", "a",
      "b", "e", "l", "s", "\"", ":", "[", "\"", "z", "z", "\"", ",", "\"", "O", "t", "h",
      "e", "r", "\"", "]", "}">>

\* '{}'
Text_empty_object ==
    <<"{", "}">>

\* '[]'
Text_array ==
    <<"[", "]">>

\* '[{"labels":["docs-issue"]}]'
Text_array_of_object ==
    <<"[", "{", "\"", "l", "a", "b", "e", "l", "s", "\"", ":", "[", "\"", "d", "o", "c",
      "s", "-", "i", "s", "s", "u", "e", "\"", "]", "}", "]">>

\* '1'
Text_number ==
    <<"1">>

\* 'null'
Text_null ==
    <<"n", "u", "l", "l">>

\* ' Sorry, I cannot comply.\n'
Text_prose ==
    <<" ", "S", "o", "r", "r", "y", ",", " ", "I", " ", "c", "a", "n", "n", "o", "t",
      " ", "c", "o", "m", "p", "l", "y", ".", "\n">>

\* '{"summary":"a"} {"summary":"b"}'
Text_two_objects ==
    <<"{", "\"", "s", "u", "m", "m", "a", "r", "y", "\"", ":", "\"", "a", "\"", "}", " ",
      "{", "\"", "s", "u", "m", "m", "a", "r", "y", "\"", ":", "\"", "b", "\"", "}">>

\* '{"comments":["x"],"labels":["other"]}'
Text_comment_string_item ==
    <<"{", "\"", "c", "o", "m", "m", "e", "n", "t", "s", "\"", ":", "[", "\"", "x", "\"",
      "]", ",", "\"", "l", "a", "b", "e", "l", "s", "\"", ":", "[", "\"", "o", "t", "h",
      "e", "r", "\"", "]", "}">>

\* '{"comments":1}'
Text_comments_number ==
    <<"{", "\"", "c", "o", "m", "m", "e", "n", "t", "s", "\"", ":", "1", "}">>

\* '{"comments":"x"}'
Text_comments_string ==
    <<"{", "\"", "c", "o", "m", "m", "e", "n", "t", "s", "\"", ":", "\"", "x", "\"", "}">>

\* '{"labels":1}'
Text_labels_number ==
    <<"{", "\"", "l", "a", "b", "e", "l", "s", "\"", ":", "1", "}">>

\* '{"labels":[["other"]]}'
Text_labels_nested ==
    <<"{", "\"", "l", "a", "b", "e", "l", "s", "\"", ":", "[", "[", "\"", "o", "t", "h",
      "e", "r", "\"", "]", "]", "}">>

\* '{"labels":"other"}'
Text_labels_string ==
    <<"{", "\"", "l", "a", "b", "e", "l", "s", "\"", ":", "\"", "o", "t", "h", "e", "r",
      "\"", "}">>

\* '{"labels":{"other":1}}'
Text_labels_object ==
    <<"{", "\"", "l", "a", "b", "e", "l", "s", "\"", ":", "{", "\"", "o", "t", "h", "e",
      "r", "\"", ":", "1", "}", "}">>

\* '{"summary":2,"labels":[1,null,"build-issue","build-issue"]}'
Text_labels_mixed ==
    <<"{", "\"", "s", "u", "m", "m", "a", "r", "y", "\"", ":", "2", ",", "\"", "l", "a",
      "b", "e", "l", "s", "\"", ":", "[", "1", ",", "n", "u", "l", "l", ",", "\"", "b",
      "u", "i", "l", "d", "-", "i", "s", "s", "u", "e", "\"", ",", "\"", "b", "u", "i",
      "l", "d", "-", "i", "s", "s", "u", "e", "\"", "]", "}">>

\* the raw texts the completion service answers a request with
ModelTexts ==
    {Text_wrapped, Text_unknown_labels, Text_empty_object, Text_array,
     Text_array_of_object, Text_number, Text_null, Text_prose, Text_two_objects,
     Text_comment_string_item, Text_comments_number, Text_comments_string,
     Text_labels_number, Text_labels_nested, Text_labels_string, Text_labels_object,
     Text_labels_mixed}

TextAlphabet == {"{", "}", "[", "]", "\"", "1", "x", " "}

\* every text of at most MaxTextLen characters over TextAlphabet
ShortTexts == UNION {[1..n -> TextAlphabet] : n \in 0..MaxTextLen}

\* a verdict in prose, in a fence of braces, or between stray brackets
Wrapped(text) ==
    {pre \o text \o post :
        pre \in {<<>>, <<"x", " ">>, <<"{">>, <<"}", " ">>, <<"[">>},
        post \in {<<>>, <<" ", "y">>, <<"}">>, <<"{">>, <<"]">>, <<"\n">>}}

\* the raw texts parse_model_json_safe is applied to on its own
AllTexts == ShortTexts \cup UNION {Wrapped(t) : t \in ModelTexts}

\* the k-th changed file GitHub lists, and the listing of the first n of them
ListedFile(k) ==
    [filename |-> <<"f">> \o <<CHOOSE d \in Digits : DigitValue(d) = k % 10>>,
     status |-> IF k % 2 = 1 THEN "modified" ELSE "added",
     changes |-> k,
     raw_url |-> k]
Listing(n) == [k \in 1..n |-> ListedFile(k)]

\* raw contents GitHub serves for the k-th file during a request: empty for
\* the first, longer than the default cap for the third, short otherwise
ServedContents(k) ==
    CASE k = 1 -> <<>>
      [] k = 3 -> [i \in 1..(DefaultMaxCharsPerFile + 1) |-> IF i % 2 = 1 THEN "a" ELSE "b"]
      [] OTHER -> <<"a", "b">>

\* raw contents of every length up to MaxRawLen, each position its own letter
RawTexts == {[i \in 1..n |-> <<"a", "b", "c", "d", "e", "f", "g", "h">>[i]] : n \in 0..MaxRawLen}

RawFailure == [raised |-> TRUE, text |-> <<>>]
RawText(text) == [raised |-> FALSE, text |-> text]

(* ------------------------------- state --------------------------------- *)
VARIABLES
    pc,                 \* where the request stands
    caller,             \* "review", or "direct" for a call of one function alone
    pr_url,             \* form field pr_url
    form_token,         \* form field token
    GITHUB_TOKEN,       \* configured token
    OPENAI_KEY,         \* configured completion key
    token,              \* request.form.get('token') or GITHUB_TOKEN
    parsed,             \* parse_pr_url(pr_url)
    max_files,          \* argument of fetch_pr_and_files
    max_chars_per_file, \* argument of fetch_pr_and_files
    files,              \* the file list GitHub returned
    replies,            \* the replies to the raw fetches so far, in order
    selected,           \* fetch_pr_and_files' result list so far
    model_text,         \* the completion's text
    review_json,        \* parse_model_json_safe(model_text)
    calls,              \* every outbound call made so far, in order
    response            \* the HTTP response of the request

vars ==
    <<pc, caller, pr_url, form_token, GITHUB_TOKEN, OPENAI_KEY, token, parsed, max_files,
      max_chars_per_file, files, replies, selected, model_text, review_json, calls, response>>

NoParse == [ok |-> FALSE, owner |-> <<>>, repo |-> <<>>, number |-> 0]
NoBody == [raised |-> "", summary |-> None, comments |-> <<>>]
NoGithubResponse == [review |-> "None", labels |-> "None"]

\* no response sent yet
NoResponse ==
    [status |-> 0, json |-> FALSE, error |-> "", details |-> FALSE, has_model_output |-> FALSE,
     model_output |-> None, github_response |-> NoGithubResponse, raised |-> ""]

\* jsonify({'error': error}), status  (details: the 'details' key is present)
ErrorResponse(status, error, details) ==
    [NoResponse EXCEPT !.status = status, !.json = TRUE, !.error = error, !.details = details]

\* an exception review() does not catch: the framework's 500 page, no JSON body
Unhandled(exception) ==
    [NoResponse EXCEPT !.status = 500, !.raised = exception]

\* one outbound call: what was called, how it ended, the labels it carried
Call(op, result) == [op |-> op, result |-> result, labels |-> <<>>, body |-> NoBody]

\* how a call of github_get / github_post can end: a 2xx reply, an error status
\* (raise_for_status raises requests.HTTPError), or an exception of another class
\* (the connection fails, the reply's body is no JSON)
HttpOutcomes == {"ok", "HTTPError", "ConnectionError"}

Idle ==
    /\ pr_url = None /\ form_token = None /\ GITHUB_TOKEN = None
    /\ OPENAI_KEY = JStr(<<>>) /\ token = None /\ parsed = NoParse
    /\ files = <<>> /\ replies = <<>> /\ selected = <<>>
    /\ model_text = <<>> /\ review_json = None /\ calls = <<>> /\ response = NoResponse

\* a POST /review arrives
Init ==
    /\ pc = "received" /\ caller = "review"
    /\ pr_url \in PrUrls /\ form_token \in FormTokens
    /\ GITHUB_TOKEN \in EnvTokens /\ OPENAI_KEY \in OpenAiKeys
    /\ token = None /\ parsed = NoParse
    /\ max_files = DefaultMaxFiles /\ max_chars_per_file = DefaultMaxCharsPerFile
    /\ files = <<>> /\ replies = <<>> /\ selected = <<>>
    /\ model_text = <<>> /\ review_json = None /\ calls = <<>> /\ response = NoResponse

(* ------------------------------ review() ------------------------------- *)
\* lines 223-233: the checks before any call
Validate ==
    /\ pc = "received"
    /\ LET tok == PyOr(form_token, GITHUB_TOKEN)
           p == IF Truthy(pr_url) THEN parse_pr_url(pr_url.s) ELSE NoParse
       IN  /\ token' = tok
           /\ parsed' = p
           /\ IF ~Truthy(pr_url)
              THEN /\ response' = ErrorResponse(400, "pr_url is required", FALSE)
                   /\ pc' = "done"
              ELSE IF ~p.ok
              THEN /\ response' = ErrorResponse(400, "Invalid GitHub PR URL", FALSE)
                   /\ pc' = "done"
              ELSE IF ~Truthy(tok)
              THEN /\ response' = ErrorResponse(400, "No GitHub token provided", FALSE)
                   /\ pc' = "done"
              ELSE /\ response' = response
                   /\ pc' = "get_pr"
    /\ UNCHANGED <<caller, pr_url, form_token, GITHUB_TOKEN, OPENAI_KEY, max_files,
                   max_chars_per_file, files, replies, selected, model_text, review_json,
                   calls>>

\* github_get, lines 87-89: does the call raise instead of returning the JSON
get_raises(outcome) == outcome # "ok"

\* a github_post that never checks the reply's status
post_raises_never(outcome) == FALSE

\* github_post, lines 97-99: does the call raise instead of returning the JSON
post_raises(outcome) == outcome # "ok"

\* the status review() answers a requests.HTTPError of the fetch with
fetch_error_status == 400

\* lines 235-238: an exception leaves fetch_pr_and_files
FetchRaised(exception) ==
    IF caller = "review"
    THEN /\ pc' = "done"
         /\ response' = IF exception = "HTTPError"
                        THEN ErrorResponse(fetch_error_status,
                                           "Failed to fetch PR from GitHub", TRUE)
                        ELSE Unhandled(exception)
    ELSE /\ pc' = "raised"
         /\ response' = response

\* fetch_pr_and_files returns: review() goes on to the prompt and the completion
FetchReturned ==
    /\ pc' = IF caller = "review" THEN "complete" ELSE "returned"
    /\ response' = response

\* line 103: GET /repos/{owner}/{repo}/pulls/{number}
GetPr ==
    /\ pc = "get_pr"
    /\ \E outcome \in HttpOutcomes :
        /\ calls' = Append(calls, Call("get_pr", outcome))
        /\ IF get_raises(outcome)
           THEN FetchRaised(outcome)
           ELSE pc' = "get_files" /\ response' = response
    /\ UNCHANGED <<caller, pr_url, form_token, GITHUB_TOKEN, OPENAI_KEY, token, parsed,
                   max_files, max_chars_per_file, files, replies, selected, model_text,
                   review_json>>

\* lines 104-106: GET .../files answers with a listing, the loop is entered
GetFiles ==
    /\ pc = "get_files"
    /\ \E outcome \in HttpOutcomes, n \in 0..MaxListed :
        /\ calls' = Append(calls, Call("get_files", outcome))
        /\ IF get_raises(outcome)
           THEN /\ n = 0
                /\ files' = files
                /\ FetchRaised(outcome)
           ELSE /\ files' = Listing(n)
                /\ IF files_slice(Listing(n), max_files) = <<>>
                   THEN FetchReturned
                   ELSE pc' = "fetch_raw" /\ response' = response
    /\ UNCHANGED <<caller, pr_url, form_token, GITHUB_TOKEN, OPENAI_KEY, token, parsed,
                   max_files, max_chars_per_file, replies, selected, model_text,
                   review_json>>

\* lines 106-116: one turn of the loop, the raw fetch answered by reply
FetchRawWith(reply) ==
    /\ pc = "fetch_raw"
    /\ LET f == files_slice(files, max_files)[Len(selected) + 1]
       IN  /\ calls' = Append(calls, Call("get_raw", IF reply.raised THEN "raised" ELSE "ok"))
           /\ replies' = Append(replies, reply)
           /\ selected' = Append(selected, selected_entry(f, reply, max_chars_per_file))
           /\ IF Len(selected) + 1 = Len(files_slice(files, max_files))
              THEN FetchReturned
              ELSE pc' = "fetch_raw" /\ response' = response
    /\ UNCHANGED <<caller, pr_url, form_token, GITHUB_TOKEN, OPENAI_KEY, token, parsed,
                   max_files, max_chars_per_file, files, model_text, review_json>>

\* the raw fetch of a request: it fails, or GitHub serves the file
FetchRaw ==
    /\ caller = "review"
    /\ \E reply \in {RawFailure, RawText(ServedContents(Len(selected) + 1))} :
          FetchRawWith(reply)

\* lines 155-165 and 240-246: the completion call, then the parse and the body
Complete ==
    /\ pc = "complete"
    /\ IF ~Truthy(OPENAI_KEY)
       THEN /\ response' = ErrorResponse(500, "OpenAI review failed", TRUE)
            /\ pc' = "done"
            /\ UNCHANGED <<model_text, review_json, calls>>
       ELSE \E outcome \in {"ok", "raised"}, text \in ModelTexts :
            /\ calls' = Append(calls, Call("complete", outcome))
            /\ IF outcome = "raised"
               THEN /\ text = Text_prose
                    /\ response' = ErrorResponse(500, "OpenAI review failed", TRUE)
                    /\ pc' = "done"
                    /\ UNCHANGED <<model_text, review_json>>
               ELSE /\ model_text' = text
                    /\ review_json' = parse_model_json_safe(text)
                    /\ LET body == review_body(parse_model_json_safe(text))
                       IN  IF body.raised # ""
                           THEN response' = Unhandled(body.raised) /\ pc' = "done"
                           ELSE response' = response /\ pc' = "post_review"
    /\ UNCHANGED <<caller, pr_url, form_token, GITHUB_TOKEN, OPENAI_KEY, token, parsed,
                   max_files, max_chars_per_file, files, replies, selected>>

\* the except clause of lines 250-251: it catches requests.HTTPError alone
caught(exception) == exception = "HTTPError"

\* lines 250-251: an exception leaves post_review_and_labels
PostRaised(exception) ==
    IF caught(exception)
    THEN [ErrorResponse(500, "Failed to post review/labels to GitHub", TRUE)
             EXCEPT !.has_model_output = TRUE, !.model_output = review_json]
    ELSE Unhandled(exception)

\* line 253: jsonify of the success body
Success(labels_resp) ==
    [NoResponse EXCEPT !.status = 200, !.json = TRUE, !.has_model_output = TRUE,
                       !.model_output = review_json,
                       !.github_response = [review |-> "receipt", labels |-> labels_resp]]

\* lines 196-210: POST .../reviews, then the labels are sanitized
PostReview ==
    /\ pc = "post_review"
    /\ \E outcome \in HttpOutcomes :
        /\ calls' = Append(calls, [Call("post_review", outcome)
                                      EXCEPT !.body = review_body(review_json)])
        /\ IF post_raises(outcome)
           THEN response' = PostRaised(outcome) /\ pc' = "done"
           ELSE LET plan == sanitize_labels(review_json)
                IN  IF plan.raised # ""
                    THEN response' = Unhandled(plan.raised) /\ pc' = "done"
                    ELSE IF plan.to_add = <<>>
                    THEN response' = Success("None") /\ pc' = "done"
                    ELSE response' = response /\ pc' = "post_labels"
    /\ UNCHANGED <<caller, pr_url, form_token, GITHUB_TOKEN, OPENAI_KEY, token, parsed,
                   max_files, max_chars_per_file, files, replies, selected, model_text,
                   review_json>>

\* lines 207-212 and 253: POST .../labels with to_add
PostLabels ==
    /\ pc = "post_labels"
    /\ \E outcome \in HttpOutcomes :
        /\ calls' = Append(calls, [Call("post_labels", outcome)
                                      EXCEPT !.labels = sanitize_labels(review_json).to_add])
        /\ response' = IF post_raises(outcome) THEN PostRaised(outcome) ELSE Success("receipt")
        /\ pc' = "done"
    /\ UNCHANGED <<caller, pr_url, form_token, GITHUB_TOKEN, OPENAI_KEY, token, parsed,
                   max_files, max_chars_per_file, files, replies, selected, model_text,
                   review_json>>

Next == Validate \/ GetPr \/ GetFiles \/ FetchRaw \/ Complete \/ PostReview \/ PostLabels

Spec == Init /\ [][Next]_vars

(* -------------------- fetch_pr_and_files on its own -------------------- *)
\* fetch_pr_and_files(owner, repo, pr_number, token, max_files, max_chars_per_file)
InitFetch ==
    /\ pc = "get_pr" /\ caller = "direct"
    /\ max_files \in 0..MaxCap /\ max_chars_per_file \in 0..MaxCap
    /\ Idle

\* the raw fetch answered by a failure or by any of RawTexts
FetchRawAny ==
    /\ caller = "direct"
    /\ \E reply \in {RawFailure} \cup {RawText(t) : t \in RawTexts} : FetchRawWith(reply)

NextFetch == GetPr \/ GetFiles \/ FetchRawAny

SpecFetch == InitFetch /\ [][NextFetch]_vars

(* ------------------- parse_model_json_safe on its own ------------------ *)
InitParse ==
    /\ pc = "parse" /\ caller = "direct"
    /\ max_files = DefaultMaxFiles /\ max_chars_per_file = DefaultMaxCharsPerFile
    /\ pr_url = None /\ form_token = None /\ GITHUB_TOKEN = None
    /\ OPENAI_KEY = JStr(<<>>) /\ token = None /\ parsed = NoParse
    /\ files = <<>> /\ replies = <<>> /\ selected = <<>>
    /\ model_text \in AllTexts /\ review_json = None /\ calls = <<>> /\ response = NoResponse

\* review_json = parse_model_json_safe(model_text)
Parse ==
    /\ pc = "parse"
    /\ review_json' = parse_model_json_safe(model_text)
    /\ pc' = "parsed"
    /\ UNCHANGED <<caller, pr_url, form_token, GITHUB_TOKEN, OPENAI_KEY, token, parsed,
                   max_files, max_chars_per_file, files, replies, selected, model_text,
                   calls, response>>

NextParse == Parse

SpecParse == InitParse /\ [][NextParse]_vars

(* ------------------------------ claims --------------------------------- *)
\* positions of the calls of one operation, and of those that succeeded
CallsOf(op) == {i \in 1..Len(calls) : calls[i].op = op}
OkCallsOf(op) == {i \in CallsOf(op) : calls[i].result = "ok"}
LastCall == calls[Len(calls)]

\* the completion service answered this request with a text
ModelAnswered == OkCallsOf("complete") # {}

\* the labels of the verdict, when it is an object whose labels are a list
VerdictLabels ==
    IF review_json.t = "dict" /\ DictGet(review_json, Chars_labels, None).t = "list"
    THEN DictGet(review_json, Chars_labels, None).items
    ELSE <<>>

\* the verdict's labels are a list of strings
LabelsAreStrings ==
    /\ review_json.t = "dict"
    /\ DictGet(review_json, Chars_labels, None).t = "list"
    /\ \A i \in 1..Len(VerdictLabels) : VerdictLabels[i].t = "str"

InAllowList(l) == l.t = "str" /\ l.s \in allowed

C2_MalformedNeverAborts ==
    (ModelAnswered /\ pc = "done") =>
        /\ CallsOf("post_review") # {}
        /\ response.raised \notin {"TypeError", "AttributeError"}

\* C3: a label post comes only after a review post that succeeded, and a
\* failed review post is followed by no call.
C3_LabelsAfterReview ==
    /\ \A j \in CallsOf("post_labels") : \E i \in OkCallsOf("post_review") : i < j
    /\ \A i \in CallsOf("post_review") :
          calls[i].result # "ok" => (i = Len(calls) /\ pc = "done")
    /\ pc = "post_labels" => OkCallsOf("post_review") # {}

C3_Witness ==
    /\ pc = "done"
    /\ \E j \in CallsOf("post_labels") : calls[j - 1].op = "post_review"

\* the request carries an input error: no pr_url, a pr_url that is no pull
\* request reference, or no token supplied or configured
InputError ==
    \/ pr_url \in {None, JStr(<<>>)}
    \/ pr_url.s \notin {Url_plain, Url_embedded}
    \/ (form_token \in {None, JStr(<<>>)} /\ GITHUB_TOKEN = None)

\* C4: a request with an input error ends with its error and makes no
\* outbound call at all; and no call follows a call whose failure ends the
\* request (only a raw-content fetch may fail and be followed by a call).
C4_NoCallAfterFailure ==
    /\ InputError => /\ calls = <<>>
                     /\ pc \in {"received", "done"}
                     /\ pc = "done" => (response.status = 400 /\ response.json)
    /\ \A i \in 1..Len(calls) :
          (calls[i].result # "ok" /\ calls[i].op # "get_raw")
              => (i = Len(calls) /\ pc = "done" /\ response.status # 200)
    /\ (pc = "done" /\ response.status # 200) =>
          \A i \in 1..(Len(calls) - 1) : calls[i].result = "ok" \/ calls[i].op = "get_raw"

\* a request with a good pr_url and no token at all has been answered
C4_Witness ==
    /\ pc = "done" /\ pr_url = JStr(Url_plain)
    /\ form_token = JStr(<<>>) /\ GITHUB_TOKEN = None
    /\ response.error = "No GitHub token provided"

\* C5: a request that obtained a model response has, when it ends, made
\* exactly one review post.
C5_ExactlyOneReviewPost ==
    (ModelAnswered /\ pc = "done") => Cardinality(CallsOf("post_review")) = 1

\* C6: a request whose review post or label post failed ends with a JSON error
\* response that carries the verdict as model_output.
C6_PublishFailureKeepsVerdict ==
    (pc = "done" /\ calls # <<>> /\ LastCall.op \in {"post_review", "post_labels"}
        /\ LastCall.result # "ok")
    => /\ response.json /\ response.status = 500
       /\ response.has_model_output /\ response.model_output = review_json

\* C7: in a request every file of files[:max_files] gets its entry, the entry
\* of a file whose raw fetch failed holds the placeholder, and a request whose
\* last outbound call is a raw fetch ended for want of the completion key
\* alone: the fetch failure itself ends nothing.
C7_RawFailureNotTerminal ==
    /\ Len(selected) = Len(replies)
    /\ \A i \in 1..Len(selected) :
          /\ selected[i].filename = files[i].filename
          /\ replies[i].raised => selected[i].contents = Placeholder
    /\ pc \in {"complete", "post_review", "post_labels"} \/ ModelAnswered
          => Len(selected) = (IF Len(files) < DefaultMaxFiles THEN Len(files)
                              ELSE DefaultMaxFiles)
    /\ (pc = "done" /\ calls # <<>> /\ LastCall.op = "get_raw")
          => (OPENAI_KEY = JStr(<<>>) /\ response.error = "OpenAI review failed"
              /\ Len(selected) = Len(files_slice(files, DefaultMaxFiles)))

\* some raw fetches failed, others did not, and the review was posted
C7_Witness ==
    /\ pc = "done" /\ response.status = 200
    /\ \E i \in 1..Len(replies) : replies[i].raised
    /\ \E i \in 1..Len(replies) : ~replies[i].raised
    /\ OkCallsOf("post_review") # {}

\* downstream failure: the call that ended the request failed, or the
\* completion could not be called for want of its key
DownstreamFailure ==
    \/ calls # <<>> /\ LastCall.op # "get_raw" /\ LastCall.result # "ok"
    \/ ~InputError /\ OPENAI_KEY = JStr(<<>>)

\* C8: every request ends with a JSON response: 400 exactly for the input
\* errors, 500 for every downstream failure, the success body otherwise.
C8_StatusFollowsFailureClass ==
    pc = "done" =>
        /\ response.json
        /\ response.status = 400 <=> InputError
        /\ DownstreamFailure => response.status = 500
        /\ (~InputError /\ ~DownstreamFailure) =>
              (response.status = 200 /\ response.has_model_output
               /\ response.github_response.review = "receipt")

\* C9: fetch_pr_and_files yields min(n, max_files) entries, the first files
\* of the listing in order; an entry holds the raw contents unchanged when
\* they are no longer than max_chars_per_file, else their first
\* max_chars_per_file characters and then the truncation marker.  (The
\* placeholder of a failed fetch goes through the same cut.)
C9_CapAndTruncate ==
    /\ pc = "returned" =>
          Len(selected) = (IF Len(files) < max_files THEN Len(files) ELSE max_files)
    /\ Len(selected) = Len(replies)
    /\ \A i \in 1..Len(selected) :
          LET raw == IF replies[i].raised THEN Placeholder ELSE replies[i].text
          IN  /\ selected[i].filename = files[i].filename
              /\ selected[i].status = files[i].status
              /\ selected[i].changes = files[i].changes
              /\ Len(raw) <= max_chars_per_file => selected[i].contents = raw
              /\ Len(raw) > max_chars_per_file =>
                    /\ Len(selected[i].contents) = max_chars_per_file + Len(TruncationMarker)
                    /\ \A k \in 1..max_chars_per_file : selected[i].contents[k] = raw[k]
                    /\ \A k \in 1..Len(TruncationMarker) :
                          selected[i].contents[max_chars_per_file + k] = TruncationMarker[k]

\* more files listed than the cap, one content cut and one left whole
C9_Witness ==
    /\ pc = "returned" /\ Len(files) > max_files /\ Len(selected) >= 2
    /\ \E i \in 1..Len(replies) :
          ~replies[i].raised /\ Len(replies[i].text) > max_chars_per_file
    /\ \E i \in 1..Len(replies) :
          /\ ~replies[i].raised /\ replies[i].text # <<>>
          /\ Len(replies[i].text) <= max_chars_per_file

\* the synthesized verdict of stage 3 for summary s
Synthesized(s) ==
    JDict(<<Chars_summary, Chars_comments, Chars_labels>>, <<JStr(s), JList(<<>>), JList(<<>>)>>)

\* s is text without its surrounding whitespace
IsTrimOf(s, text) ==
    /\ s = <<>> \/ (s[1] \notin Whitespace /\ s[Len(s)] \notin Whitespace)
    /\ \E a \in 0..Len(text) :
          /\ a + Len(s) <= Len(text)
          /\ \A k \in 1..Len(s) : text[a + k] = s[k]
          /\ \A k \in 1..a : text[k] \in Whitespace
          /\ \A k \in (a + Len(s) + 1)..Len(text) : text[k] \in Whitespace

\* C10: the verdict is (1) the strict parse of the span from the first '{' to
\* the last '}' when both exist, the first before the last, and the span
\* parses; (2) otherwise the strict parse of the whole text when that parses;
\* (3) otherwise the synthesized verdict of the trimmed text.
C10_ThreeStages ==
    pc = "parsed" =>
        LET opens == {i \in 1..Len(model_text) : model_text[i] = "{"}
            closes == {i \in 1..Len(model_text) : model_text[i] = "}"}
            first == CHOOSE i \in opens : \A j \in opens : i <= j
            last == CHOOSE i \in closes : \A j \in closes : j <= i
            stage1 == /\ opens # {} /\ closes # {} /\ first < last
                      /\ json_loads(SubSeq(model_text, first, last)).ok
            stage2 == json_loads(model_text).ok
        IN  IF stage1 THEN review_json = json_loads(SubSeq(model_text, first, last)).v
            ELSE IF stage2 THEN review_json = json_loads(model_text).v
            ELSE /\ review_json.t = "dict"
                 /\ review_json = Synthesized(DictGet(review_json, Chars_summary, None).s)
                 /\ IsTrimOf(DictGet(review_json, Chars_summary, None).s, model_text)

\* a text with a brace in it whose span does not parse and whose whole does
C10_Witness ==
    /\ pc = "parsed"
    /\ \E i \in 1..Len(model_text) : model_text[i] = "{"
    /\ review_json.t = "str"

====
